---- MODULE Spec2Model ----
(***************************************************************************)
(* Model of app.py, a command-line assistant that answers questions about  *)
(* a PostgreSQL schema through a completion service and a database client. *)
(*                                                                         *)
(* Text is modelled as a sequence of character codes (ASCII), so that      *)
(* str.lower, str.strip, str.startswith, str.split, str.join and slicing   *)
(* are computed the way the interpreter computes them.  The completion     *)
(* service, the database client, the file system and the terminal are the  *)
(* environment: each call to them either returns a value or raises.        *)
(***************************************************************************)
EXTENDS Integers, Sequences, FiniteSets

VARIABLES
    pc,          \* position of the script: load_env, connect_db, init_llm,
                 \* schema, main, file_mode, prompt, terminated
    env,         \* the process environment and argv, fixed at launch
    db_schema,   \* app.py:12
    schema_info, \* app.py:66, the module-level schema text
    user_input,  \* app.py:241, the last line read at the prompt
    cmd,         \* the branch of the if/elif chain (app.py:243-257) last taken
    question_md, \* what ./question.md held at the last read (Missing if absent)
    invoked,     \* the functions of app.py called by the last step, in order
    calls,       \* the external calls made by the last step, with their outcome
    prompt,      \* the last prompt handed to llm.invoke
    response,    \* app.py:131, the last stripped completion
    sql_query,   \* app.py:150/153, the last extracted statement
    ret,         \* the value returned by the last workflow function
    out,         \* the lines printed by the last step
    exit_code,   \* the process exit status once terminated, else -1
    uncaught,    \* the exception that ended the process, else "none"
    net_used,    \* whether any database or completion-service call was attempted
    dispatched   \* whether any command was read or dispatched

vars == <<pc, env, db_schema, schema_info, user_input, cmd, question_md, invoked,
          calls, prompt, response, sql_query, ret, out, exit_code, uncaught,
          net_used, dispatched>>

(***************************************************************************)
(* String literals of app.py and sample texts of the environment.          *)
(***************************************************************************)
\* S_exit = 'exit'
S_exit == <<101, 120, 105, 116>>
\* S_explore = 'explore'
S_explore == <<101, 120, 112, 108, 111, 114, 101>>
\* S_file = 'file'
S_file == <<102, 105, 108, 101>>
\* S_query = 'query:'
S_query == <<113, 117, 101, 114, 121, 58>>
\* S_model = 'model:'
S_model == <<109, 111, 100, 101, 108, 58>>
\* S_fence = '```'
S_fence == <<96, 96, 96>>
\* S_catalog = 'catalog'
S_catalog == <<99, 97, 116, 97, 108, 111, 103>>
\* S_fk_header = '\n\nForeign key relationships:\n'
S_fk_header == <<10, 10, 70, 111, 114, 101, 105, 103, 110, 32, 107, 101, 121, 32, 114, 101, 108, 97, 116, 105, 111, 110, 115, 104, 105, 112, 115, 58, 10>>
\* S_fk_warning = 'Warning: Could not fetch foreign key relationships: '
S_fk_warning == <<87, 97, 114, 110, 105, 110, 103, 58, 32, 67, 111, 117, 108, 100, 32, 110, 111, 116, 32, 102, 101, 116, 99, 104, 32, 102, 111, 114, 101, 105, 103, 110, 32, 107, 101, 121, 32, 114, 101, 108, 97, 116, 105, 111, 110, 115, 104, 105, 112, 115, 58, 32>>
\* S_error_tag = 'Error: '
S_error_tag == <<69, 114, 114, 111, 114, 58, 32>>
\* S_error_sql = 'Error executing SQL: '
S_error_sql == <<69, 114, 114, 111, 114, 32, 101, 120, 101, 99, 117, 116, 105, 110, 103, 32, 83, 81, 76, 58, 32>>
\* S_full_response = '\nFull response:'
S_full_response == <<10, 70, 117, 108, 108, 32, 114, 101, 115, 112, 111, 110, 115, 101, 58>>
\* S_full_explanation = '\nFull explanation:'
S_full_explanation == <<10, 70, 117, 108, 108, 32, 101, 120, 112, 108, 97, 110, 97, 116, 105, 111, 110, 58>>
\* S_result = 'Result: '
S_result == <<82, 101, 115, 117, 108, 116, 58, 32>>
\* S_generated_sql = '\nGenerated SQL: '
S_generated_sql == <<10, 71, 101, 110, 101, 114, 97, 116, 101, 100, 32, 83, 81, 76, 58, 32>>
\* S_no_question = 'No question found in question.md file.'
S_no_question == <<78, 111, 32, 113, 117, 101, 115, 116, 105, 111, 110, 32, 102, 111, 117, 110, 100, 32, 105, 110, 32, 113, 117, 101, 115, 116, 105, 111, 110, 46, 109, 100, 32, 102, 105, 108, 101, 46>>
\* S_processing = '\nProcessing question from question.md:\n'
S_processing == <<10, 80, 114, 111, 99, 101, 115, 115, 105, 110, 103, 32, 113, 117, 101, 115, 116, 105, 111, 110, 32, 102, 114, 111, 109, 32, 113, 117, 101, 115, 116, 105, 111, 110, 46, 109, 100, 58, 10>>
\* S_select = 'SELECT * FROM '
S_select == <<83, 69, 76, 69, 67, 84, 32, 42, 32, 70, 82, 79, 77, 32>>
\* S_limit = ' LIMIT 5;'
S_limit == <<32, 76, 73, 77, 73, 84, 32, 53, 59>>
\* S_executing = '\nExecuting: '
S_executing == <<10, 69, 120, 101, 99, 117, 116, 105, 110, 103, 58, 32>>
\* S_sample = 'Sample data: '
S_sample == <<83, 97, 109, 112, 108, 101, 32, 100, 97, 116, 97, 58, 32>>
\* S_not_found_a = 'Table not found in the '
S_not_found_a == <<84, 97, 98, 108, 101, 32, 110, 111, 116, 32, 102, 111, 117, 110, 100, 32, 105, 110, 32, 116, 104, 101, 32>>
\* S_not_found_b = ' schema.'
S_not_found_b == <<32, 115, 99, 104, 101, 109, 97, 46>>
\* S_no_api_key = 'ERROR: ANTHROPIC_API_KEY not found in environment variables.'
S_no_api_key == <<69, 82, 82, 79, 82, 58, 32, 65, 78, 84, 72, 82, 79, 80, 73, 67, 95, 65, 80, 73, 95, 75, 69, 89, 32, 110, 111, 116, 32, 102, 111, 117, 110, 100, 32, 105, 110, 32, 101, 110, 118, 105, 114, 111, 110, 109, 101, 110, 116, 32, 118, 97, 114, 105, 97, 98, 108, 101, 115, 46>>
\* S_answer_banner = '\n----- Answer -----'
S_answer_banner == <<10, 45, 45, 45, 45, 45, 32, 65, 110, 115, 119, 101, 114, 32, 45, 45, 45, 45, 45>>
\* S_analysis_banner = '\n----- Database Model Analysis -----'
S_analysis_banner == <<10, 45, 45, 45, 45, 45, 32, 68, 97, 116, 97, 98, 97, 115, 101, 32, 77, 111, 100, 101, 108, 32, 65, 110, 97, 108, 121, 115, 105, 115, 32, 45, 45, 45, 45, 45>>
\* S_tables_a = "Available tables in '"
S_tables_a == <<65, 118, 97, 105, 108, 97, 98, 108, 101, 32, 116, 97, 98, 108, 101, 115, 32, 105, 110, 32, 39>>
\* S_tables_b = "' schema: "
S_tables_b == <<39, 32, 115, 99, 104, 101, 109, 97, 58, 32>>
\* S_comma = ', '
S_comma == <<44, 32>>
\* T_show_all_users = ' show all users'
T_show_all_users == <<32, 115, 104, 111, 119, 32, 97, 108, 108, 32, 117, 115, 101, 114, 115>>
\* T_random_text = 'random text'
T_random_text == <<114, 97, 110, 100, 111, 109, 32, 116, 101, 120, 116>>
\* T_app = 'app'
T_app == <<97, 112, 112>>
\* T_base = 'TABLE t(a)'
T_base == <<84, 65, 66, 76, 69, 32, 116, 40, 97, 41>>
\* T_fk = 't.a->u.b'
T_fk == <<116, 46, 97, 45, 62, 117, 46, 98>>
\* T_denied = 'denied'
T_denied == <<100, 101, 110, 105, 101, 100>>
\* T_rows = '[(1,)]'
T_rows == <<91, 40, 49, 44, 41, 93>>
\* T_orders = 'orders'
T_orders == <<111, 114, 100, 101, 114, 115>>
\* T_users = 'users'
T_users == <<117, 115, 101, 114, 115>>
\* T_nosuch = 'nosuch'
T_nosuch == <<110, 111, 115, 117, 99, 104>>
\* R_fenced = '```sql\nSELECT COUNT(*) FROM catalog.orders;\n``` some explanation'
R_fenced == <<96, 96, 96, 115, 113, 108, 10, 83, 69, 76, 69, 67, 84, 32, 67, 79, 85, 78, 84, 40, 42, 41, 32, 70, 82, 79, 77, 32, 99, 97, 116, 97, 108, 111, 103, 46, 111, 114, 100, 101, 114, 115, 59, 10, 96, 96, 96, 32, 115, 111, 109, 101, 32, 101, 120, 112, 108, 97, 110, 97, 116, 105, 111, 110>>
\* R_inline = 'Sure! ```SELECT 1;```'
R_inline == <<83, 117, 114, 101, 33, 32, 96, 96, 96, 83, 69, 76, 69, 67, 84, 32, 49, 59, 96, 96, 96>>
\* R_plain = ' SELECT 1;\n'
R_plain == <<32, 83, 69, 76, 69, 67, 84, 32, 49, 59, 10>>
\* R_blank_block = '```\n\n```'
R_blank_block == <<96, 96, 96, 10, 10, 96, 96, 96>>
\* F_query = 'Query: how many rows\n'
F_query == <<81, 117, 101, 114, 121, 58, 32, 104, 111, 119, 32, 109, 97, 110, 121, 32, 114, 111, 119, 115, 10>>
\* F_model = ' MODEL: keys'
F_model == <<32, 77, 79, 68, 69, 76, 58, 32, 107, 101, 121, 115>>
\* F_blank = ' \n'
F_blank == <<32, 10>>
\* S_error_reading = 'Error reading file: '
S_error_reading == <<69, 114, 114, 111, 114, 32, 114, 101, 97, 100, 105, 110, 103, 32, 102, 105, 108, 101, 58, 32>>
\* S_banner_a = 'Database Analyzer - '
S_banner_a == <<68, 97, 116, 97, 98, 97, 115, 101, 32, 65, 110, 97, 108, 121, 122, 101, 114, 32, 45, 32>>
\* S_banner_b = ' schema'
S_banner_b == <<32, 115, 99, 104, 101, 109, 97>>
\* S_fk_query_a = "WHERE tc.constraint_type = 'FOREIGN KEY' AND tc.table_schema = '"
S_fk_query_a == <<87, 72, 69, 82, 69, 32, 116, 99, 46, 99, 111, 110, 115, 116, 114, 97, 105, 110, 116, 95, 116, 121, 112, 101, 32, 61, 32, 39, 70, 79, 82, 69, 73, 71, 78, 32, 75, 69, 89, 39, 32, 65, 78, 68, 32, 116, 99, 46, 116, 97, 98, 108, 101, 95, 115, 99, 104, 101, 109, 97, 32, 61, 32, 39>>
\* S_fk_query_b = "';"
S_fk_query_b == <<39, 59>>

(***************************************************************************)
(* The string operations of the interpreter that app.py uses.              *)
(***************************************************************************)
\* '\n', the separator of response.split and of '\n'.join
NL == 10
\* the number of leading lines kept by the fallback, lines[:5]
FallbackLines == 5
\* the length of the 'query:' / 'model:' prefix dropped by the slice [6:]
PrefixLen == 6

NoneVal == <<-1>>      \* Python's None where a text is expected
Missing == <<-2>>      \* ./question.md does not exist

IsSpace(c) == c \in {9, 10, 11, 12, 13, 28, 29, 30, 31, 32}

LowerChar(c) == IF c >= 65 /\ c <= 90 THEN c + 32 ELSE c

UpperChar(c) == IF c >= 97 /\ c <= 122 THEN c - 32 ELSE c

Lower(s) == [i \in 1..Len(s) |-> LowerChar(s[i])]

Upper(s) == [i \in 1..Len(s) |-> UpperChar(s[i])]

Capitalize(s) == [i \in 1..Len(s) |-> IF i = 1 THEN UpperChar(s[i]) ELSE LowerChar(s[i])]

RECURSIVE LStrip(_)
LStrip(s) == IF s = <<>> \/ ~IsSpace(s[1]) THEN s ELSE LStrip(Tail(s))

RECURSIVE RStrip(_)
RStrip(s) ==
    IF s = <<>> \/ ~IsSpace(s[Len(s)]) THEN s ELSE RStrip(SubSeq(s, 1, Len(s) - 1))

Strip(s) == RStrip(LStrip(s))

StartsWith(s, p) == Len(s) >= Len(p) /\ SubSeq(s, 1, Len(p)) = p

DropPrefix(s, n) == SubSeq(s, n + 1, Len(s))

Take(xs, n) == SubSeq(xs, 1, IF Len(xs) < n THEN Len(xs) ELSE n)

\* the index of the first sep in s at or after i, or 0
RECURSIVE Find(_, _, _)
Find(s, sep, i) ==
    IF i > Len(s) THEN 0 ELSE IF s[i] = sep THEN i ELSE Find(s, sep, i + 1)

RECURSIVE Split(_, _)
Split(s, sep) ==
    LET i == Find(s, sep, 1)
    IN  IF i = 0 THEN <<s>>
        ELSE <<SubSeq(s, 1, i - 1)>> \o Split(SubSeq(s, i + 1, Len(s)), sep)

RECURSIVE Join(_, _)
Join(sep, xs) ==
    IF xs = <<>> THEN <<>>
    ELSE IF Len(xs) = 1 THEN xs[1]
    ELSE xs[1] \o sep \o Join(sep, Tail(xs))

Contains(s, p) ==
    \E i \in 0..(Len(s) - Len(p)) : SubSeq(s, i + 1, i + Len(p)) = p

(***************************************************************************)
(* generate_sql_query, lines 134-153: isolating the statement.             *)
(***************************************************************************)
IsFenceLine(line) == StartsWith(Strip(line), S_fence)

RECURSIVE ScanLines(_, _, _, _)
ScanLines(lines, i, in_query, query_lines) ==
    IF i > Len(lines) THEN query_lines
    ELSE IF IsFenceLine(lines[i]) /\ ~in_query
         THEN ScanLines(lines, i + 1, TRUE, query_lines)
    ELSE IF IsFenceLine(lines[i]) /\ in_query
         THEN query_lines
    ELSE IF in_query
         THEN ScanLines(lines, i + 1, in_query, Append(query_lines, lines[i]))
    ELSE ScanLines(lines, i + 1, in_query, query_lines)

\* a scan that does not stop at the closing marker
RECURSIVE ScanLines_NoBreak(_, _, _, _)
ScanLines_NoBreak(lines, i, in_query, query_lines) ==
    IF i > Len(lines) THEN query_lines
    ELSE IF IsFenceLine(lines[i])
         THEN ScanLines_NoBreak(lines, i + 1, ~in_query, query_lines)
    ELSE IF in_query
         THEN ScanLines_NoBreak(lines, i + 1, in_query, Append(query_lines, lines[i]))
    ELSE ScanLines_NoBreak(lines, i + 1, in_query, query_lines)

ExtractSql_NoBreak(resp) ==
    LET lines == Split(resp, NL)
        query_lines == ScanLines_NoBreak(lines, 1, FALSE, <<>>)
    IN  IF query_lines # <<>>
        THEN Strip(Join(<<NL>>, query_lines))
        ELSE Strip(Join(<<NL>>, Take(lines, FallbackLines)))

ExtractSql(resp) ==
    LET lines == Split(resp, NL)
        query_lines == ScanLines(lines, 1, FALSE, <<>>)
    IN  IF query_lines # <<>>
        THEN Strip(Join(<<NL>>, query_lines))
        ELSE Strip(Join(<<NL>>, Take(lines, FallbackLines)))

(***************************************************************************)
(* The if/elif chain of the interactive loop, lines 243-257.               *)
(***************************************************************************)
Command(kind, text) == [kind |-> kind, text |-> text]

NoCommand == Command("none", <<>>)

\* the chain with the .lower() calls left out
classify_CaseSensitive(line) ==
    IF line = S_exit THEN Command("Exit", <<>>)
    ELSE IF line = S_explore THEN Command("Explore", <<>>)
    ELSE IF line = S_file THEN Command("File", <<>>)
    ELSE IF StartsWith(line, S_query)
         THEN Command("Query", Strip(DropPrefix(line, PrefixLen)))
    ELSE IF StartsWith(line, S_model)
         THEN Command("ModelAnalysis", Strip(DropPrefix(line, PrefixLen)))
    ELSE Command("DirectQuestion", line)

classify(line) ==
    LET lowered == Lower(line)
    IN  IF lowered = S_exit THEN Command("Exit", <<>>)
        ELSE IF lowered = S_explore THEN Command("Explore", <<>>)
        ELSE IF lowered = S_file THEN Command("File", <<>>)
        ELSE IF StartsWith(lowered, S_query)
             THEN Command("Query", Strip(DropPrefix(line, PrefixLen)))
        ELSE IF StartsWith(lowered, S_model)
             THEN Command("ModelAnalysis", Strip(DropPrefix(line, PrefixLen)))
        ELSE Command("DirectQuestion", line)

(***************************************************************************)
(* The environment: what the external collaborators can answer.            *)
(***************************************************************************)
Unreadable == <<-3>>   \* ./question.md exists but open/read raises

Outcome(ok, val) == [ok |-> ok, val |-> val]

Responses == {R_fenced, R_inline, R_plain, R_blank_block}

LlmOutcomes == {Outcome(TRUE, r) : r \in Responses} \cup {Outcome(FALSE, T_denied)}

DbOutcomes == {Outcome(TRUE, T_rows), Outcome(FALSE, T_denied)}

TableInfoOutcomes == {Outcome(TRUE, T_base), Outcome(FALSE, T_denied)}

FkOutcomes == {Outcome(TRUE, T_fk), Outcome(FALSE, T_denied)}

FileStates == {Missing, Unreadable, F_query, F_model, F_blank,
               S_explore, Upper(S_exit), S_file, T_random_text}

Tables == <<T_orders, T_users>>

Selections == {T_orders, T_nosuch}

Prefixes == {<<>>, <<32>>}

Suffixes == {<<>>, T_show_all_users}

Keywords == {S_exit, S_explore, S_file, S_query, S_model, T_random_text}

InputLines ==
    {p \o k \o s : p \in Prefixes, s \in Suffixes,
                   k \in UNION {{kw, Upper(kw), Capitalize(kw)} : kw \in Keywords}}

Environments ==
    [DB_URI : BOOLEAN, ANTHROPIC_API_KEY : BOOLEAN, DB_SCHEMA : {<<>>, T_app},
     file_arg : BOOLEAN]

(***************************************************************************)
(* What one function call does: the functions it enters, the external      *)
(* calls it makes, what it prints, what it returns, and the exception that *)
(* leaves it, if any.                                                      *)
(***************************************************************************)
Call(svc, arg, o) == [svc |-> svc, arg |-> arg, ok |-> o.ok, val |-> o.val]

Inv(fn, arg) == [fn |-> fn, arg |-> arg]

NoPrompt == [kind |-> "none", schema |-> NoneVal, db_schema |-> NoneVal,
             question |-> NoneVal]

Effect(i, c, o, r, x, p, resp, sql) ==
    [invoked |-> i, calls |-> c, out |-> o, ret |-> r, raised |-> x,
     prompt |-> p, response |-> resp, sql_query |-> sql]

Nothing == Effect(<<>>, <<>>, <<>>, NoneVal, "none", NoPrompt, NoneVal, NoneVal)

\* e1 followed by e2, which runs only if e1 returned
Then(e1, e2) ==
    IF e1.raised # "none" THEN e1
    ELSE Effect(e1.invoked \o e2.invoked, e1.calls \o e2.calls, e1.out \o e2.out,
                e2.ret, e2.raised, e2.prompt, e2.response, e2.sql_query)

(***************************************************************************)
(* get_detailed_schema_info, lines 32-63.                                  *)
(***************************************************************************)
\* the tail of fk_query, lines 55-56, with the schema name interpolated
FkQuery == S_fk_query_a \o db_schema \o S_fk_query_b

\* the except clause left out: the failure of the foreign-key query escapes
get_detailed_schema_info_Propagate(ti, fk) ==
    IF ~ti.ok
    THEN Effect(<<Inv("get_detailed_schema_info", <<>>)>>,
                <<Call("db.get_table_info", <<>>, ti)>>, <<>>, NoneVal,
                "Exception", NoPrompt, NoneVal, NoneVal)
    ELSE IF fk.ok
    THEN Effect(<<Inv("get_detailed_schema_info", <<>>)>>,
                <<Call("db.get_table_info", <<>>, ti), Call("db.run", FkQuery, fk)>>,
                <<>>, ti.val \o S_fk_header \o fk.val, "none", NoPrompt,
                NoneVal, NoneVal)
    ELSE Effect(<<Inv("get_detailed_schema_info", <<>>)>>,
                <<Call("db.get_table_info", <<>>, ti), Call("db.run", FkQuery, fk)>>,
                <<>>, NoneVal, "Exception", NoPrompt, NoneVal, NoneVal)

get_detailed_schema_info(ti, fk) ==
    IF ~ti.ok
    THEN Effect(<<Inv("get_detailed_schema_info", <<>>)>>,
                <<Call("db.get_table_info", <<>>, ti)>>, <<>>, NoneVal,
                "Exception", NoPrompt, NoneVal, NoneVal)
    ELSE IF fk.ok
    THEN Effect(<<Inv("get_detailed_schema_info", <<>>)>>,
                <<Call("db.get_table_info", <<>>, ti), Call("db.run", FkQuery, fk)>>,
                <<>>, ti.val \o S_fk_header \o fk.val, "none", NoPrompt,
                NoneVal, NoneVal)
    ELSE Effect(<<Inv("get_detailed_schema_info", <<>>)>>,
                <<Call("db.get_table_info", <<>>, ti), Call("db.run", FkQuery, fk)>>,
                <<S_fk_warning \o fk.val>>, ti.val, "none", NoPrompt,
                NoneVal, NoneVal)

(***************************************************************************)
(* The three prompt templates, lines 70-80, 90-109 and 119-129: the        *)
(* template chosen and the values interpolated into it.                    *)
(***************************************************************************)
AnswerPrompt(question) ==
    [kind |-> "answer", schema |-> schema_info, db_schema |-> db_schema,
     question |-> question]

AnalyzePrompt(question) ==
    [kind |-> "analyze", schema |-> schema_info, db_schema |-> NoneVal,
     question |-> question]

GenerateSqlPrompt(question) ==
    [kind |-> "generate-sql", schema |-> schema_info, db_schema |-> db_schema,
     question |-> question]

(***************************************************************************)
(* answer_question, lines 68-86, and analyze_database_model, lines 88-115. *)
(***************************************************************************)
Completion(fn, banner, p, question, llm) ==
    IF ~llm.ok
    THEN Effect(<<Inv(fn, question)>>, <<Call("llm.invoke", <<>>, llm)>>, <<>>,
                NoneVal, "Exception", p, NoneVal, NoneVal)
    ELSE LET resp == Strip(llm.val)
         IN  Effect(<<Inv(fn, question)>>, <<Call("llm.invoke", <<>>, llm)>>,
                    <<banner, resp>>, resp, "none", p, resp, NoneVal)

\* the schema assembled again for the prompt instead of read from schema_info
answer_question_Refetch(question, llm) ==
    LET again == get_detailed_schema_info(Outcome(TRUE, T_base),
                                          Outcome(FALSE, T_denied))
    IN  Then(again,
             Completion("answer_question", S_answer_banner,
                        [kind |-> "answer", schema |-> again.ret,
                         db_schema |-> db_schema, question |-> question],
                        question, llm))

answer_question(question, llm) ==
    Completion("answer_question", S_answer_banner, AnswerPrompt(question),
               question, llm)

analyze_database_model(question, llm) ==
    Completion("analyze_database_model", S_analysis_banner,
               AnalyzePrompt(question), question, llm)

(***************************************************************************)
(* generate_sql_query, lines 117-167.                                      *)
(***************************************************************************)
\* the except clause left out: the failure of db.run escapes
RunQuery_Propagate(sql, resp, dbo) ==
    IF dbo.ok
    THEN Effect(<<>>, <<Call("db.run", sql, dbo)>>,
                <<S_result \o dbo.val, S_full_explanation, resp>>, dbo.val,
                "none", NoPrompt, resp, sql)
    ELSE Effect(<<>>, <<Call("db.run", sql, dbo)>>, <<>>, NoneVal, "Exception",
                NoPrompt, resp, sql)

\* lines 157-167: running the statement
RunQuery(sql, resp, dbo) ==
    IF dbo.ok
    THEN Effect(<<>>, <<Call("db.run", sql, dbo)>>,
                <<S_result \o dbo.val, S_full_explanation, resp>>, dbo.val,
                "none", NoPrompt, resp, sql)
    ELSE Effect(<<>>, <<Call("db.run", sql, dbo)>>,
                <<S_error_sql \o dbo.val, S_full_response, resp>>,
                S_error_tag \o dbo.val, "none", NoPrompt, resp, sql)

generate_sql_query(question, llm, dbo) ==
    IF ~llm.ok
    THEN Effect(<<Inv("generate_sql_query", question)>>,
                <<Call("llm.invoke", <<>>, llm)>>, <<>>, NoneVal, "Exception",
                GenerateSqlPrompt(question), NoneVal, NoneVal)
    ELSE LET resp == Strip(llm.val)
             sql == ExtractSql(resp)
             run == RunQuery(sql, resp, dbo)
         IN  Effect(<<Inv("generate_sql_query", question)>>,
                    <<Call("llm.invoke", <<>>, llm)>> \o run.calls,
                    <<S_generated_sql \o sql \o <<NL>>>> \o run.out, run.ret,
                    run.raised, GenerateSqlPrompt(question), resp, sql)

(***************************************************************************)
(* explore_db, lines 169-182.  db.get_usable_table_names reads the names   *)
(* the client reflected when it was built; selected is the line typed.     *)
(***************************************************************************)
explore_db(selected, dbo) ==
    LET listing == S_tables_a \o db_schema \o S_tables_b \o Join(S_comma, Tables)
        sample_query == S_select \o db_schema \o <<46>> \o selected \o S_limit
    IN  IF \E i \in 1..Len(Tables) : Tables[i] = selected
        THEN IF dbo.ok
             THEN Effect(<<Inv("explore_db", selected)>>,
                         <<Call("db.run", sample_query, dbo)>>,
                         <<listing, S_executing \o sample_query,
                           S_sample \o dbo.val>>,
                         NoneVal, "none", NoPrompt, NoneVal, NoneVal)
             ELSE Effect(<<Inv("explore_db", selected)>>,
                         <<Call("db.run", sample_query, dbo)>>,
                         <<listing, S_executing \o sample_query>>,
                         NoneVal, "Exception", NoPrompt, NoneVal, NoneVal)
        ELSE Effect(<<Inv("explore_db", selected)>>, <<>>,
                    <<listing, S_not_found_a \o db_schema \o S_not_found_b>>,
                    NoneVal, "none", NoPrompt, NoneVal, NoneVal)

(***************************************************************************)
(* read_markdown_question, lines 184-194.                                  *)
(***************************************************************************)
read_markdown_question(f) ==
    IF f = Missing
    THEN Effect(<<Inv("read_markdown_question", <<>>)>>, <<>>, <<>>, NoneVal,
                "ValueError", NoPrompt, NoneVal, NoneVal)
    ELSE IF f = Unreadable
    THEN Effect(<<Inv("read_markdown_question", <<>>)>>, <<>>,
                <<S_error_reading>>, NoneVal, "none", NoPrompt, NoneVal, NoneVal)
    ELSE Effect(<<Inv("read_markdown_question", <<>>)>>, <<>>, <<>>, Strip(f),
                "none", NoPrompt, NoneVal, NoneVal)

(***************************************************************************)
(* process_markdown_mode, lines 196-213.                                   *)
(***************************************************************************)
FileDispatch(question, llm, dbo) ==
    IF StartsWith(Lower(question), S_query)
    THEN generate_sql_query(Strip(DropPrefix(question, PrefixLen)), llm, dbo)
    ELSE IF StartsWith(Lower(question), S_model)
    THEN analyze_database_model(Strip(DropPrefix(question, PrefixLen)), llm)
    ELSE answer_question(question, llm)

\* the file's contents sent through the interactive chain instead
process_markdown_mode_Reclassify(f, llm, dbo) ==
    LET read == read_markdown_question(f)
        enter == Effect(<<Inv("process_markdown_mode", <<>>)>>, <<>>, <<>>,
                        NoneVal, "none", NoPrompt, NoneVal, NoneVal)
        c == classify(read.ret)
    IN  IF read.raised = "none" /\ read.ret # NoneVal /\ read.ret # <<>>
        THEN Then(Then(enter, read),
                  IF c.kind = "Exit"
                  THEN Nothing
                  ELSE IF c.kind = "Explore"
                  THEN explore_db(T_orders, dbo)
                  ELSE IF c.kind = "File"
                  THEN Then(FileDispatch(read.ret, llm, dbo),
                            FileDispatch(read.ret, llm, dbo))
                  ELSE FileDispatch(read.ret, llm, dbo))
        ELSE Then(Then(enter, read),
                  Effect(<<>>, <<>>, <<S_no_question>>, NoneVal, "none",
                         NoPrompt, NoneVal, NoneVal))

process_markdown_mode(f, llm, dbo) ==
    LET read == read_markdown_question(f)
        enter == Effect(<<Inv("process_markdown_mode", <<>>)>>, <<>>, <<>>,
                        NoneVal, "none", NoPrompt, NoneVal, NoneVal)
    IN  IF read.raised = "none" /\ read.ret # NoneVal /\ read.ret # <<>>
        THEN Then(Then(enter, read),
                  Then(Effect(<<>>, <<>>,
                              <<S_processing \o read.ret \o <<NL>>>>, NoneVal,
                              "none", NoPrompt, NoneVal, NoneVal),
                       FileDispatch(read.ret, llm, dbo)))
        ELSE Then(Then(enter, read),
                  Effect(<<>>, <<>>, <<S_no_question>>, NoneVal, "none",
                         NoPrompt, NoneVal, NoneVal))

(***************************************************************************)
(* The script, top to bottom.                                              *)
(***************************************************************************)
NetServices == {"SQLDatabase.from_uri", "db.get_table_info", "db.run", "llm.invoke"}

UsesNet(e) == \E i \in 1..Len(e.calls) : e.calls[i].svc \in NetServices

\* the per-step observations of a step that calls no function
Quiet ==
    /\ invoked' = <<>>
    /\ calls' = <<>>
    /\ prompt' = NoPrompt
    /\ response' = NoneVal
    /\ sql_query' = NoneVal
    /\ ret' = NoneVal

\* the process ends: status 1 with a traceback, or the status given
Terminate(code, exc) ==
    /\ pc' = "terminated"
    /\ exit_code' = code
    /\ uncaught' = exc

\* a step that ran e and goes on to position next unless e raised
Apply(e, next) ==
    /\ invoked' = e.invoked
    /\ calls' = e.calls
    /\ out' = e.out
    /\ prompt' = e.prompt
    /\ response' = e.response
    /\ sql_query' = e.sql_query
    /\ ret' = e.ret
    /\ net_used' = (net_used \/ UsesNet(e))
    /\ IF e.raised # "none"
       THEN Terminate(1, e.raised)
       ELSE IF next = "terminated"
       THEN Terminate(0, "none")
       ELSE pc' = next /\ UNCHANGED <<exit_code, uncaught>>

Init ==
    /\ pc = "load_env"
    /\ env \in Environments
    /\ db_schema = NoneVal
    /\ schema_info = NoneVal
    /\ user_input = NoneVal
    /\ cmd = NoCommand
    /\ question_md = NoneVal
    /\ invoked = <<>>
    /\ calls = <<>>
    /\ prompt = NoPrompt
    /\ response = NoneVal
    /\ sql_query = NoneVal
    /\ ret = NoneVal
    /\ out = <<>>
    /\ exit_code = -1
    /\ uncaught = "none"
    /\ net_used = FALSE
    /\ dispatched = FALSE

\* lines 8-14
LoadEnv ==
    /\ pc = "load_env"
    /\ db_schema' = IF env.DB_SCHEMA = <<>> THEN S_catalog ELSE env.DB_SCHEMA
    /\ IF ~env.DB_URI
       THEN Terminate(1, "ValueError")
       ELSE pc' = "connect_db" /\ UNCHANGED <<exit_code, uncaught>>
    /\ Quiet
    /\ UNCHANGED <<env, schema_info, user_input, cmd, question_md, out, net_used,
                   dispatched>>

\* lines 17-22
ConnectDb ==
    /\ pc = "connect_db"
    /\ \E o \in {Outcome(TRUE, <<>>), Outcome(FALSE, T_denied)} :
          Apply(Effect(<<>>, <<Call("SQLDatabase.from_uri", <<>>, o)>>, <<>>,
                       NoneVal, IF o.ok THEN "none" ELSE "Exception", NoPrompt,
                       NoneVal, NoneVal),
                "init_llm")
    /\ UNCHANGED <<env, db_schema, schema_info, user_input, cmd, question_md,
                   dispatched>>

\* lines 25-29: the constructor makes no call; given no key it either builds
\* the client or rejects the missing key, depending on the client's version
InitLlm ==
    /\ pc = "init_llm"
    /\ \/ pc' = "schema" /\ UNCHANGED <<exit_code, uncaught>>
       \/ ~env.ANTHROPIC_API_KEY /\ Terminate(1, "Exception")
    /\ Quiet
    /\ UNCHANGED <<env, db_schema, schema_info, user_input, cmd, question_md, out,
                   net_used, dispatched>>

\* line 66
FetchSchema ==
    /\ pc = "schema"
    /\ \E ti \in TableInfoOutcomes, fk \in FkOutcomes :
          LET e == get_detailed_schema_info(ti, fk)
          IN  /\ Apply(e, "main")
              /\ schema_info' = IF e.raised = "none" THEN e.ret ELSE schema_info
    /\ UNCHANGED <<env, db_schema, user_input, cmd, question_md, dispatched>>

\* the key check left out
MainCheck_NoExit ==
    /\ pc = "main"
    /\ pc' = IF env.file_arg THEN "file_mode" ELSE "prompt"
    /\ out' = IF env.file_arg THEN <<>> ELSE <<S_banner_a \o db_schema \o S_banner_b>>
    /\ Quiet
    /\ UNCHANGED <<env, db_schema, schema_info, user_input, cmd, question_md,
                   net_used, dispatched, exit_code, uncaught>>

\* lines 218-238: sys.exit(1) without the key, else the mode argv selects
MainCheck ==
    /\ pc = "main"
    /\ IF ~env.ANTHROPIC_API_KEY
       THEN Terminate(1, "none") /\ out' = <<S_no_api_key>>
       ELSE /\ pc' = IF env.file_arg THEN "file_mode" ELSE "prompt"
            /\ out' = IF env.file_arg THEN <<>>
                      ELSE <<S_banner_a \o db_schema \o S_banner_b>>
            /\ UNCHANGED <<exit_code, uncaught>>
    /\ Quiet
    /\ UNCHANGED <<env, db_schema, schema_info, user_input, cmd, question_md,
                   net_used, dispatched>>

\* line 226: --file, then the script ends
FileMode ==
    /\ pc = "file_mode"
    /\ \E f \in FileStates, llm \in LlmOutcomes, dbo \in DbOutcomes :
          /\ Apply(process_markdown_mode(f, llm, dbo), "terminated")
          /\ question_md' = f
    /\ dispatched' = TRUE
    /\ UNCHANGED <<env, db_schema, schema_info, user_input, cmd>>

\* lines 240-257: one turn of the loop, by the branch the line selects
Read(line) ==
    /\ pc = "prompt"
    /\ user_input' = line
    /\ cmd' = classify(line)
    /\ dispatched' = TRUE
    /\ UNCHANGED <<env, db_schema, schema_info>>

ExitCommand ==
    \E line \in InputLines :
        /\ classify(line).kind = "Exit"
        /\ Read(line)
        /\ Apply(Nothing, "terminated")
        /\ question_md' = NoneVal

ExploreCommand ==
    \E line \in InputLines :
        /\ classify(line).kind = "Explore"
        /\ Read(line)
        /\ \E selected \in Selections, dbo \in DbOutcomes :
              Apply(explore_db(selected, dbo), "prompt")
        /\ question_md' = NoneVal

FileCommand ==
    \E line \in InputLines :
        /\ classify(line).kind = "File"
        /\ Read(line)
        /\ \E f \in FileStates, llm \in LlmOutcomes, dbo \in DbOutcomes :
              /\ Apply(process_markdown_mode(f, llm, dbo), "prompt")
              /\ question_md' = f

QueryCommand ==
    \E line \in InputLines :
        /\ classify(line).kind = "Query"
        /\ Read(line)
        /\ \E llm \in LlmOutcomes, dbo \in DbOutcomes :
              Apply(generate_sql_query(classify(line).text, llm, dbo), "prompt")
        /\ question_md' = NoneVal

ModelCommand ==
    \E line \in InputLines :
        /\ classify(line).kind = "ModelAnalysis"
        /\ Read(line)
        /\ \E llm \in LlmOutcomes :
              Apply(analyze_database_model(classify(line).text, llm), "prompt")
        /\ question_md' = NoneVal

DirectCommand ==
    \E line \in InputLines :
        /\ classify(line).kind = "DirectQuestion"
        /\ Read(line)
        /\ \E llm \in LlmOutcomes :
              Apply(answer_question(classify(line).text, llm), "prompt")
        /\ question_md' = NoneVal

Next ==
    \/ LoadEnv
    \/ ConnectDb
    \/ InitLlm
    \/ FetchSchema
    \/ MainCheck
    \/ FileMode
    \/ ExitCommand
    \/ ExploreCommand
    \/ FileCommand
    \/ QueryCommand
    \/ ModelCommand
    \/ DirectCommand

Spec == Init /\ [][Next]_vars

(***************************************************************************)
(* The statement isolation of generate_sql_query applied to every response *)
(* of at most MaxLines lines drawn from LineKinds.                         *)
(***************************************************************************)
MaxLines == 6

\* "", " q ", "```", " ```s", "S!```Q;```"
LineKinds == {<<>>, <<32, 113, 32>>, S_fence, <<32>> \o S_fence \o <<115>>,
              <<83, 33>> \o S_fence \o <<81, 59>> \o S_fence}

Contents ==
    {Join(<<NL>>, ls) : ls \in UNION {[1..n -> LineKinds] : n \in 1..MaxLines}}

InitExtract ==
    /\ pc = "completed"
    /\ \E content \in Contents : response = Strip(content)
    /\ env = [DB_URI |-> TRUE, ANTHROPIC_API_KEY |-> TRUE, DB_SCHEMA |-> <<>>,
              file_arg |-> FALSE]
    /\ db_schema = S_catalog
    /\ schema_info = T_base
    /\ user_input = NoneVal
    /\ cmd = NoCommand
    /\ question_md = NoneVal
    /\ invoked = <<>>
    /\ calls = <<>>
    /\ prompt = NoPrompt
    /\ sql_query = NoneVal
    /\ ret = NoneVal
    /\ out = <<>>
    /\ exit_code = -1
    /\ uncaught = "none"
    /\ net_used = TRUE
    /\ dispatched = TRUE

\* lines 134-153 on the stripped completion of line 131
Extract ==
    /\ pc = "completed"
    /\ sql_query' = ExtractSql(response)
    /\ pc' = "extracted"
    /\ UNCHANGED <<env, db_schema, schema_info, user_input, cmd, question_md,
                   invoked, calls, prompt, response, ret, out, exit_code,
                   uncaught, net_used, dispatched>>

NextExtract == Extract

SpecExtract == InitExtract /\ [][NextExtract]_vars

(***************************************************************************)
(* Properties.  The per-step variables describe the step just taken, so a  *)
(* predicate on them speaks of the command that step processed.            *)
(***************************************************************************)
Ran(fn) == \E i \in 1..Len(invoked) : invoked[i].fn = fn

CallsTo(svc) == {i \in 1..Len(calls) : calls[i].svc = svc}

FailedCall == \E i \in 1..Len(calls) : ~calls[i].ok

\* where the script stands after a step that ran to its end
Continues ==
    IF env.file_arg THEN pc = "terminated" /\ exit_code = 0 /\ uncaught = "none"
    ELSE pc = "prompt" /\ uncaught = "none"

\* C1: when the File command is dispatched and ./question.md does not exist,
\* no exception terminates the process, and in interactive mode the loop is
\* back at the prompt.
C1_MissingFileNonFatal ==
    (Ran("process_markdown_mode") /\ question_md = Missing)
        => (uncaught = "none" /\ (~env.file_arg => pc = "prompt"))

\* C2: once the loop is running, a failed completion-service or database call
\* never ends the process: the step that made it leaves the loop at the
\* prompt, and the process ends only by the Exit command, without an exception.
C2_OnlyExitEndsLoop ==
    /\ (user_input # NoneVal /\ FailedCall) => (pc = "prompt" /\ uncaught = "none")
    /\ (user_input # NoneVal /\ pc = "terminated")
          => (cmd.kind = "Exit" /\ uncaught = "none")

\* C8: with DB_URI or ANTHROPIC_API_KEY absent the script never reaches the
\* prompt or file mode, reads and dispatches no command, and ends with a
\* non-zero status; with DB_URI absent it ends at the check of line 13,
\* before any database or completion-service call.
C8_MissingCredentialFatal ==
    /\ (~env.DB_URI \/ ~env.ANTHROPIC_API_KEY)
          => /\ pc \notin {"prompt", "file_mode"}
             /\ user_input = NoneVal
             /\ ~dispatched
             /\ pc = "terminated" => exit_code = 1
    /\ ~env.DB_URI => (pc \in {"load_env", "terminated"} /\ ~net_used)

\* the script ended by sys.exit(1) at line 221, the database having been used
C8_Witness ==
    /\ env.DB_URI
    /\ ~env.ANTHROPIC_API_KEY
    /\ pc = "terminated"
    /\ exit_code = 1
    /\ uncaught = "none"
    /\ out = <<S_no_api_key>>
    /\ schema_info # NoneVal

\* C9: a Query workflow whose completion call returned runs the extracted
\* statement exactly once after exactly one completion call; if db.run
\* raises, the workflow returns "Error: " followed by the error text, having
\* printed the error and the full response, no exception leaves it and the
\* script continues; if db.run returns, the workflow returns that result.
C9_QueryFailureContained ==
    (Ran("generate_sql_query") /\ \E i \in CallsTo("llm.invoke") : calls[i].ok)
        => /\ Cardinality(CallsTo("llm.invoke")) = 1
           /\ Cardinality(CallsTo("db.run")) = 1
           /\ \A i \in CallsTo("db.run") :
                 /\ calls[i].arg = sql_query
                 /\ IF calls[i].ok
                    THEN ret = calls[i].val
                    ELSE /\ ret = S_error_tag \o calls[i].val
                         /\ \E j \in 1..Len(out) : out[j] = S_error_sql \o calls[i].val
                         /\ \E j \in 1..Len(out) : out[j] = response
                         /\ Continues

\* a query typed at the prompt whose statement the database rejected
C9_Witness ==
    /\ cmd.kind = "Query"
    /\ Ran("generate_sql_query")
    /\ \E i \in CallsTo("db.run") : ~calls[i].ok
    /\ ret = S_error_tag \o T_denied
    /\ pc = "prompt"

\* C10: after the schema assembly in which the table info was fetched, if the
\* foreign-key query raised, schema_info is the table info alone, holds no
\* "Foreign key relationships:" header, and the script goes on; if the query
\* returned, schema_info is the table info, the header and the listing.
C10_SchemaDegrades ==
    \A i \in CallsTo("db.run") :
        calls[i].arg = FkQuery
            => /\ i = 2
               /\ calls[1].svc = "db.get_table_info"
               /\ calls[1].ok
               /\ pc = "main"
               /\ uncaught = "none"
               /\ IF calls[i].ok
                  THEN schema_info = calls[1].val \o S_fk_header \o calls[i].val
                  ELSE /\ schema_info = calls[1].val
                       /\ ~Contains(schema_info, S_fk_header)

\* the foreign-key query raised and the schema text is the table info
C10_Witness ==
    /\ pc = "main"
    /\ \E i \in CallsTo("db.run") : calls[i].arg = FkQuery /\ ~calls[i].ok
    /\ schema_info = T_base
    /\ out = <<S_fk_warning \o T_denied>>

\* C3: for every non-empty response, the extracted statement is non-empty.
C3_NeverEmpty ==
    (pc = "extracted" /\ response # <<>>) => sql_query # <<>>

\* The reading of "first fenced code block" that the examples of C4 need:
\* the text between the first ``` and the next ``` (or the end of the
\* response), wherever they stand in their lines, less the rest of the
\* opening line when the block goes on past it (the language tag).
FencePositions(s) == {i \in 1..(Len(s) - 2) : SubSeq(s, i, i + 2) = S_fence}

Least(S) == CHOOSE i \in S : \A j \in S : i <= j

HasMarker(s) == FencePositions(s) # {}

FirstFencedBlock(s) ==
    LET open == Least(FencePositions(s))
        later == {j \in FencePositions(s) : j >= open + 3}
        close == IF later = {} THEN Len(s) + 1 ELSE Least(later)
        inner == SubSeq(s, open + 3, close - 1)
        eol == Find(inner, NL, 1)
    IN  IF eol = 0 THEN inner ELSE SubSeq(inner, eol + 1, Len(inner))

FirstLines(s) == Join(<<NL>>, Take(Split(s, NL), FallbackLines))

\* the first block is closed by a second marker and holds more than blanks
HasFencedBlock(s) ==
    /\ \E i \in FencePositions(s), j \in FencePositions(s) : j >= i + 3
    /\ Strip(FirstFencedBlock(s)) # <<>>

\* C4 as stated: whenever the response contains a fenced code block the
\* statement is the trimmed content of the first one, and when it has no
\* fence it is the first five lines of the response, trimmed.
C4_FirstFencedBlock ==
    pc = "extracted"
        => /\ HasFencedBlock(response)
                 => sql_query = Strip(FirstFencedBlock(response))
           /\ ~HasMarker(response) => sql_query = Strip(FirstLines(response))

\* The lines of the response, the lines that open or close a block (their
\* trimmed text starts with ```), and the lines between the first such line
\* and the next one, or the end of the response.
LinesOf(s) == Split(s, NL)

MarkerLines(s) ==
    {i \in 1..Len(LinesOf(s)) : StartsWith(Strip(LinesOf(s)[i]), S_fence)}

BlockLines(s) ==
    LET open == Least(MarkerLines(s))
        later == {j \in MarkerLines(s) : j > open}
        close == IF later = {} THEN Len(LinesOf(s)) + 1 ELSE Least(later)
    IN  SubSeq(LinesOf(s), open + 1, close - 1)

\* C4, amended: the statement is the lines between the first marker line and
\* the next marker line (or the end of the response), joined and trimmed,
\* whenever there is such a line; otherwise (no marker line, or nothing
\* between the first two) it is the first five lines of the response,
\* trimmed, which is the whole response when it has at most five lines.
C4_FirstBlockLines ==
    pc = "extracted"
        => IF MarkerLines(response) # {} /\ BlockLines(response) # <<>>
           THEN sql_query = Strip(Join(<<NL>>, BlockLines(response)))
           ELSE /\ sql_query = Strip(FirstLines(response))
                /\ Len(LinesOf(response)) <= FallbackLines => sql_query = response

\* a response of more than five lines whose second block is left out
C4_Witness ==
    /\ pc = "extracted"
    /\ Len(LinesOf(response)) > FallbackLines
    /\ Cardinality(MarkerLines(response)) >= 3
    /\ BlockLines(response) # <<>>
    /\ sql_query = <<113>>

\* C5: the branch taken is decided by the lowered line alone: 'exit',
\* 'explore' and 'file' select Exit, Explore and File, a 'query:' or 'model:'
\* prefix selects Query or ModelAnalysis with the trimmed rest of the line as
\* its text, handed to the workflow, and any other line is a DirectQuestion
\* carrying the line unchanged; lines that differ only in letter case take
\* the same branch.
C5_Classification ==
    user_input # NoneVal
        => LET lowered == Lower(user_input)
               rest == Strip(DropPrefix(user_input, PrefixLen))
           IN  /\ lowered = S_exit => cmd = Command("Exit", <<>>)
               /\ lowered = S_explore => (cmd = Command("Explore", <<>>) /\ Ran("explore_db"))
               /\ lowered = S_file
                     => (cmd = Command("File", <<>>) /\ Ran("process_markdown_mode"))
               /\ StartsWith(lowered, S_query)
                     => /\ cmd = Command("Query", rest)
                        /\ invoked = <<Inv("generate_sql_query", rest)>>
               /\ StartsWith(lowered, S_model)
                     => /\ cmd = Command("ModelAnalysis", rest)
                        /\ invoked = <<Inv("analyze_database_model", rest)>>
               /\ (/\ lowered \notin {S_exit, S_explore, S_file}
                   /\ ~StartsWith(lowered, S_query)
                   /\ ~StartsWith(lowered, S_model))
                     => /\ cmd = Command("DirectQuestion", user_input)
                        /\ invoked = <<Inv("answer_question", user_input)>>
               /\ \A other \in InputLines :
                     Lower(other) = lowered => classify(other).kind = cmd.kind

\* "QUERY: show all users" was read and gave Query("show all users")
C5_Witness ==
    /\ user_input = Upper(S_query) \o T_show_all_users
    /\ cmd = Command("Query", Strip(T_show_all_users))
    /\ invoked = <<Inv("generate_sql_query", Strip(T_show_all_users))>>

IsIntrospection(c) ==
    c.svc = "db.get_table_info" \/ (c.svc = "db.run" /\ c.arg = FkQuery)

\* a step taken after line 66 has run leaves schema_info alone, issues neither
\* the table-info fetch nor the foreign-key query, and sends no prompt that
\* embeds anything but schema_info
KeepsSchema ==
    pc \in {"main", "file_mode", "prompt"}
        => /\ schema_info' = schema_info
           /\ \A i \in 1..Len(calls') : ~IsIntrospection(calls'[i])
           /\ prompt' # NoPrompt => prompt'.schema = schema_info

\* C6: once line 66 has run, no step changes schema_info, no step issues the
\* table-info fetch or the foreign-key query, and every prompt a step sends
\* embeds schema_info.
C6_SchemaComputedOnce == [][KeepsSchema]_vars

\* a direct question answered from the schema text with its foreign keys
C6_Witness ==
    /\ pc = "prompt"
    /\ cmd.kind = "DirectQuestion"
    /\ prompt.kind = "answer"
    /\ prompt.schema = T_base \o S_fk_header \o T_fk
    /\ schema_info = prompt.schema

\* the workflow calls of the last step, in order
RECURSIVE WorkflowsIn(_)
WorkflowsIn(is) ==
    IF is = <<>> THEN <<>>
    ELSE IF is[1].fn \in {"generate_sql_query", "analyze_database_model",
                          "answer_question"}
         THEN <<is[1]>> \o WorkflowsIn(Tail(is))
         ELSE WorkflowsIn(Tail(is))

\* the workflow the prefix rules of file mode give the trimmed contents
FileWorkflow(question) ==
    IF StartsWith(Lower(question), S_query)
    THEN Inv("generate_sql_query", Strip(DropPrefix(question, PrefixLen)))
    ELSE IF StartsWith(Lower(question), S_model)
    THEN Inv("analyze_database_model", Strip(DropPrefix(question, PrefixLen)))
    ELSE Inv("answer_question", question)

FileStepShape ==
    /\ Cardinality({i \in 1..Len(invoked) : invoked[i].fn = "process_markdown_mode"}) = 1
    /\ Cardinality({i \in 1..Len(invoked) : invoked[i].fn = "read_markdown_question"}) = 1
    /\ ~Ran("explore_db")

\* C7 as stated: a File dispatch invokes exactly one of the three workflows
\* exactly once, chosen by the prefix of the trimmed contents, never Explore,
\* Exit or a nested read, and then the loop is at the prompt (interactive) or
\* the process has exited (--file).
C7_DispatchOnce ==
    Ran("process_markdown_mode")
        => /\ FileStepShape
           /\ WorkflowsIn(invoked) = <<FileWorkflow(Strip(question_md))>>
           /\ IF env.file_arg THEN pc = "terminated" ELSE pc = "prompt"

\* C7, amended: a File dispatch invokes at most one workflow, at most once,
\* and never Explore, Exit or a nested read.  If ./question.md is missing
\* the ValueError of read_markdown_question ends the process with no
\* workflow invoked; if it is unreadable or empty once trimmed, no workflow
\* is invoked, "No question found" is printed and the script continues;
\* otherwise exactly the workflow its prefix selects is invoked once, and the
\* script continues if the completion call returned and ends with the
\* exception if it raised.  Continuing is the prompt (interactive) or exit
\* status 0 (--file).
C7_DispatchAtMostOnce ==
    Ran("process_markdown_mode")
        => /\ FileStepShape
           /\ IF question_md = Missing
              THEN /\ WorkflowsIn(invoked) = <<>>
                   /\ pc = "terminated" /\ exit_code = 1 /\ uncaught = "ValueError"
              ELSE IF question_md = Unreadable \/ Strip(question_md) = <<>>
              THEN /\ WorkflowsIn(invoked) = <<>>
                   /\ out[Len(out)] = S_no_question
                   /\ Continues
              ELSE /\ WorkflowsIn(invoked) = <<FileWorkflow(Strip(question_md))>>
                   /\ IF \E i \in CallsTo("llm.invoke") : ~calls[i].ok
                      THEN pc = "terminated" /\ exit_code = 1 /\ uncaught = "Exception"
                      ELSE Continues

\* 'file' typed at the prompt with question.md holding "EXIT": answered as a
\* direct question, and the loop is back at the prompt
C7_Witness ==
    /\ cmd.kind = "File"
    /\ question_md = Upper(S_exit)
    /\ WorkflowsIn(invoked) = <<Inv("answer_question", Upper(S_exit))>>
    /\ pc = "prompt"
====
